---------------------------- MODULE Spec2Model ----------------------------
(***************************************************************************)
(* A model of mail-cli: the date-ordered mailbox retrieval of mail.rs, the *)
(* header filter rendering of mail_filters.rs, the credential store of     *)
(* store_accounts.rs and the read command of main.rs (session opening with *)
(* one token refresh, fetch, logout).                                      *)
(*                                                                         *)
(* Each part has its own specification over the same variables; the       *)
(* variables of the other parts stay at their idle values.                 *)
(*   Spec       : the read command of main.rs                              *)
(*   SpecFetch  : MailBox::fetch_n_recent_mails                            *)
(*   SpecFilter : HeaderFilter::filter_str                                 *)
(*   SpecStore  : StoredAccounts::load_data and StoredAccounts::insert     *)
(***************************************************************************)
EXTENDS Naturals, Integers, Sequences, FiniteSets, TLC

(***************************************************************************)
(* Bounds of the model.                                                    *)
(***************************************************************************)
\* the largest number of messages in a mailbox
MaxMsgs == 3
\* the number of distinct instants a Date header can denote
MaxDate == 3
\* the largest requested count n
MaxN == 2
\* the largest number of selectors in a HeaderFilter
MaxFields == 2
\* the number of distinct predicate values a selector can carry
MaxPred == 1
\* the number of filters built from the same inputs
MaxBuilds == 2
\* the number of account identifiers
NumAccounts == 2
\* the number of distinct token values
NumTokens == 2
\* the largest number of insert calls on the credential store
MaxUpserts == 2

VARIABLES
    \* ---- mail.rs: MailBox::fetch_n_recent_mails ----
    mailbox,          \* the provider's mailbox: index i -> [date, body]
    n,                \* the requested count
    fpc,              \* position in fetch_n_recent_mails
    io_error,         \* the provider call that failed, "none" when none did
    recent_ord_nums,  \* the ranking returned by get_mails_sorted_by_date
    fetched,          \* the ordering numbers of the final fetch, in provider order
    mails,            \* the returned Vec<anyhow::Result<Mail>>
    \* ---- mail_filters.rs: HeaderFilter ----
    fields,           \* the selectors given to HeaderFilter::new
    negated,          \* the negated flag given to HeaderFilter::new
    built,            \* the results of filter_str, one per filter built
    \* ---- store_accounts.rs: StoredAccounts, and the file accounts.toml ----
    fs,               \* the data directory and accounts.toml in it
    accounts,         \* the HashMap held in memory
    last_op,          \* the last call on the store and how it ended
    upserts,          \* the number of insert calls made
    all_ok,           \* no insert call has failed since the load
    expected,         \* what was loaded, overlaid with account -> the
                      \* credential of its last insert call since
    \* ---- main.rs: the read command ----
    pc,               \* position in the read command
    err,              \* the error main returned, "none" when none
    email,            \* the selected account, 0 before the selection
    access_token,     \* the access token in use, 0 before the selection
    refresh_token,    \* the refresh token of the selected account
    session,          \* the IMAP session: none, open, logged_out, ...
    calls,            \* the calls made to the provider and the file system
    fs0               \* the file as the command found it

fetchVars == <<mailbox, n, fpc, io_error, recent_ord_nums, fetched, mails>>

filterVars == <<fields, negated, built>>

storeVars == <<fs, accounts, last_op, upserts, all_ok, expected>>

readVars == <<pc, err, email, access_token, refresh_token, session, calls, fs0>>

vars == <<fetchVars, filterVars, storeVars, readVars>>

(***************************************************************************)
(* Helpers for sequences.                                                  *)
(***************************************************************************)
Min(a, b) == IF a <= b THEN a ELSE b

Range(s) == {s[i] : i \in DOMAIN s}

\* every sequence that lists each element of S exactly once
Perms(S) ==
    {s \in [1..Cardinality(S) -> S] : \A x \in S : \E i \in DOMAIN s : s[i] = x}

\* Iterator::rev
Rev(s) == [i \in 1..Len(s) |-> s[Len(s) + 1 - i]]

\* Iterator::take(n), off by one
TakeOneMore(s, k) == SubSeq(s, 1, Min(k + 1, Len(s)))

\* Iterator::take(n)
Take(s, k) == SubSeq(s, 1, Min(k, Len(s)))

(***************************************************************************)
(* The mail provider.                                                      *)
(***************************************************************************)
\* A message: date = 0 is an absent or unparsable Date header, 1..MaxDate
\* an instant; body tells whether the raw body parses as a mail.
Messages == [date : 0..MaxDate, body : BOOLEAN]

Mailboxes == UNION {[1..k -> Messages] : k \in 0..MaxMsgs}

\* session.search("ALL"): the ordering numbers of the selected mailbox
SearchAll(box) == DOMAIN box

\* all_ord_nums.into_iter().join(","): the numbers of the set, written in
\* the set's iteration order (any one of them: the provider reads the
\* string as a set again)
FetchStr(ord_nums) == CHOOSE s \in Perms(ord_nums) : TRUE

\* The answers the session can give to FETCH for a sequence set that was
\* written as the numbers of seqset joined by ",": one item per number, in
\* an order the provider chooses.  An empty sequence set is answered by
\* the client library with no items and without a command being sent.
ProviderFetch(seqset) ==
    IF seqset = <<>> THEN {<<>>} ELSE Perms(Range(seqset))

(***************************************************************************)
(* get_mails_sorted_by_date                                                *)
(***************************************************************************)
\* (date, item.message) of a fetched item
DatedItem(box, ord_num) == [date |-> box[ord_num].date, message |-> ord_num]

\* one step of the stable ascending sort: x goes after the elements that
\* are not greater than it
InsertByDate(sorted, x) ==
    LET k == Cardinality({i \in DOMAIN sorted : sorted[i].date <= x.date})
    IN  SubSeq(sorted, 1, k) \o <<x>> \o SubSeq(sorted, k + 1, Len(sorted))

RECURSIVE SortedByDate(_)
\* Itertools::sorted_by(|a, b| a.date.cmp(b.date)): a stable ascending sort
SortedByDate(items) ==
    IF items = <<>> THEN <<>>
    ELSE InsertByDate(SortedByDate(SubSeq(items, 1, Len(items) - 1)),
                      items[Len(items)])

\* chrono::DateTime::parse_from_rfc2822(..).unwrap() panics on such an item
DateUnparsable(box, ord_num) == box[ord_num].date = 0

\* .sorted_by(..).rev().map(|(_, num)| num) on the items in provider order
Rank(box, order) ==
    LET sorted == Rev(SortedByDate([i \in DOMAIN order |-> DatedItem(box, order[i])]))
    IN  [i \in DOMAIN sorted |-> sorted[i].message]

(***************************************************************************)
(* mail_filters.rs                                                         *)
(***************************************************************************)
\* enum HeaderField: a variant and its Option payload; pred = 0 is None and
\* 1..MaxPred a value.  PartialEq compares the variant alone while the
\* derived Hash covers the payload, so a HashSet can hold two selectors of
\* one variant with different payloads as well as one.
HeaderFields == [tag : {"Subject", "To", "From", "Date"}, pred : 0..MaxPred]

\* the text of a Subject, To or From payload
PredStr(v) == <<"alice", "bob", "carol">>[v]

\* DateTime::to_rfc2822 of a Date payload
ToRfc2822(v) ==
    <<"Mon, 1 Jan 2024 00:00:00 +0000", "Tue, 2 Jan 2024 00:00:00 +0000",
      "Wed, 3 Jan 2024 00:00:00 +0000">>[v]

\* the text format! appends for an Option payload: nothing for None
PayloadStr(field) ==
    IF field.pred = 0 THEN <<>>
    ELSE IF field.tag = "Date" THEN <<ToRfc2822(field.pred)>>
    ELSE <<PredStr(field.pred)>>

\* HeaderField::filter_str: the rendered text as the sequence of its pieces
HeaderFieldStr(field) ==
    CASE field.tag = "Subject" -> <<"SUBJECT", " ">> \o PayloadStr(field)
      [] field.tag = "To"      -> <<"TO", " ">> \o PayloadStr(field)
      [] field.tag = "From"    -> <<"TO", " ">> \o PayloadStr(field)
      [] field.tag = "Date"    -> <<"DATE", " ">> \o PayloadStr(field)

RECURSIVE JoinFields(_)
\* .map(|field| field.filter_str()).collect::<Vec<_>>().join(", ")
JoinFields(order) ==
    IF order = <<>> THEN <<>>
    ELSE IF Len(order) = 1 THEN HeaderFieldStr(order[1])
    ELSE HeaderFieldStr(order[1]) \o <<", ">> \o JoinFields(Tail(order))

\* filter_str without the is_empty check: an empty set renders as well
HeaderFilterStrNoEmptyCheck(order, neg) ==
    [some |-> TRUE,
     str |-> <<"HEADER.FIELDS">> \o (IF neg THEN <<".NOT">> ELSE <<>>)
             \o <<" (">> \o JoinFields(order) \o <<")">>]

\* HeaderFilter::filter_str for a set that iterates in the given order:
\* None, or Some of the rendered text
HeaderFilterStr(order, neg) ==
    IF order = <<>> THEN [some |-> FALSE, str |-> <<>>]
    ELSE [some |-> TRUE,
          str |-> <<"HEADER.FIELDS">> \o (IF neg THEN <<".NOT">> ELSE <<>>)
                  \o <<" (">> \o JoinFields(order) \o <<")">>]

FilterIdle ==
    /\ fields = {}
    /\ negated = FALSE
    /\ built = <<>>

(***************************************************************************)
(* store_accounts.rs: the file accounts.toml                               *)
(***************************************************************************)
AccountIds == 1..NumAccounts

Tokens == 1..NumTokens

\* struct StoredAccountData
StoredAccountData == [access_token : Tokens, refresh_token : Tokens]

\* The file as the program meets it.  kind is
\*   "nohome" : no home directory, get_data_dir_path fails
\*   "absent" : accounts.toml does not exist
\*   "denied" : accounts.toml can be neither read nor written
\*   "file"   : accounts.toml holds text
\* and text is the file's lines: a table header [account] or a key = value
\* line of the table above it.
TomlLine(key, v) == [key |-> key, v |-> v]

\* a table written with the two values under each other's key
TomlTableSwapped(k, data) ==
    <<TomlLine("table", k), TomlLine("access_token", data.refresh_token),
      TomlLine("refresh_token", data.access_token)>>

\* the table of one account: the fields in declaration order
TomlTable(k, data) ==
    <<TomlLine("table", k), TomlLine("access_token", data.access_token),
      TomlLine("refresh_token", data.refresh_token)>>

RECURSIVE TomlToString(_, _)
\* toml::to_string_pretty of the map, its keys met in the given order
TomlToString(map, order) ==
    IF order = <<>> THEN <<>>
    ELSE TomlTable(order[1], map[order[1]]) \o TomlToString(map, Tail(order))

RECURSIVE TomlParse(_, _, _)
\* the parse of the lines left, cur the table being read (0: none yet) and
\* acc the tables read so far, a field that is 0 not read yet
TomlParse(text, cur, acc) ==
    IF text = <<>>
    THEN IF \A k \in DOMAIN acc : acc[k].access_token # 0 /\ acc[k].refresh_token # 0
         THEN [ok |-> TRUE, map |-> acc]
         ELSE [ok |-> FALSE, map |-> <<>>]
    ELSE LET line == Head(text) IN
         IF line.key = "table"
         THEN IF line.v \in DOMAIN acc
              THEN [ok |-> FALSE, map |-> <<>>]
              ELSE TomlParse(Tail(text), line.v,
                     [k \in DOMAIN acc \cup {line.v} |->
                        IF k = line.v THEN [access_token |-> 0, refresh_token |-> 0]
                        ELSE acc[k]])
         ELSE IF cur = 0 \/ acc[cur][line.key] # 0
              THEN [ok |-> FALSE, map |-> <<>>]
              ELSE TomlParse(Tail(text), cur,
                     [acc EXCEPT ![cur] = [@ EXCEPT ![line.key] = line.v]])

\* toml::from_str::<HashMap<String, StoredAccountData>>: Ok(map) or Err
TomlFromStr(text) == TomlParse(text, 0, <<>>)

\* fs::read_to_string(path): Ok(text), or Err of an io::ErrorKind
FsReadToString(f) ==
    CASE f.kind = "file"   -> [err |-> "none", text |-> f.text]
      [] f.kind = "absent" -> [err |-> "NotFound", text |-> <<>>]
      [] OTHER             -> [err |-> "PermissionDenied", text |-> <<>>]

\* load_data with every read error taken for an empty file
LoadDataLenient(f) ==
    IF f.kind = "nohome" THEN [ok |-> FALSE, map |-> <<>>]
    ELSE LET r == FsReadToString(f) IN
         IF r.err # "none" THEN TomlFromStr(<<>>) ELSE TomlFromStr(r.text)

\* StoredAccounts::load_data: Ok(map) or Err
LoadData(f) ==
    IF f.kind = "nohome" THEN [ok |-> FALSE, map |-> <<>>]
    ELSE LET r == FsReadToString(f) IN
         IF r.err = "NotFound" THEN TomlFromStr(<<>>)
         ELSE IF r.err # "none" THEN [ok |-> FALSE, map |-> <<>>]
         ELSE TomlFromStr(r.text)

\* fs::create_dir_all and fs::write(path, text): the write succeeds, or
\* fails leaving the file as it was or cut short
FsWrite(f, text) ==
    IF f.kind \in {"absent", "file"}
    THEN {[ok |-> TRUE, fs |-> [kind |-> "file", text |-> text]],
          [ok |-> FALSE, fs |-> f]}
         \cup {[ok |-> FALSE, fs |-> [kind |-> "file", text |-> SubSeq(text, 1, k)]] :
                 k \in 0..(Len(text) - 1)}
    ELSE {[ok |-> FALSE, fs |-> f]}

\* StoredAccounts::store_data: the outcomes of writing the whole map
StoreData(f, map) ==
    IF f.kind = "nohome" THEN {[ok |-> FALSE, fs |-> f]}
    ELSE UNION {FsWrite(f, TomlToString(map, order)) : order \in Perms(DOMAIN map)}

\* HashMap::insert: the entry of k is inserted or replaced
HashMapInsert(map, k, v) ==
    [x \in DOMAIN map \cup {k} |-> IF x = k THEN v ELSE map[x]]

StoreIdle ==
    /\ fs = [kind |-> "absent", text |-> <<>>]
    /\ accounts = <<>>
    /\ last_op = "idle"
    /\ upserts = 0
    /\ all_ok = TRUE
    /\ expected = <<>>

ReadIdle ==
    /\ pc = "idle"
    /\ err = "none"
    /\ email = 0
    /\ access_token = 0
    /\ refresh_token = 0
    /\ session = "none"
    /\ calls = <<>>
    /\ fs0 = [kind |-> "absent", text |-> <<>>]

(***************************************************************************)
(* MailBox::fetch_n_recent_mails                                           *)
(***************************************************************************)
\* the closure of the final map: Ok(Mail) with the item's ordering number,
\* or Err when the body is not a mail (ord_num then tells which item the
\* Err stands for)
ParseItem(box, ord_num) == [ok |-> box[ord_num].body, ord_num |-> ord_num]

\* the final map with the failed elements left out, as flat_map would
CollectMailsSkippingFailures(box, order) ==
    SelectSeq(Rev([i \in DOMAIN order |-> ParseItem(box, order[i])]),
              LAMBDA m : m.ok)

\* .map(parse).rev().collect() on the items in provider order
CollectMails(box, order) == Rev([i \in DOMAIN order |-> ParseItem(box, order[i])])

FetchIdle ==
    /\ mailbox = <<>>
    /\ n = 0
    /\ fpc = "idle"
    /\ io_error = "none"
    /\ recent_ord_nums = <<>>
    /\ fetched = <<>>
    /\ mails = <<>>

FetchInit ==
    /\ mailbox \in Mailboxes
    /\ n \in 0..MaxN
    /\ fpc = "select"
    /\ io_error = "none"
    /\ recent_ord_nums = <<>>
    /\ fetched = <<>>
    /\ mails = <<>>

\* session.select(self.name())?
SelectMailbox ==
    /\ fpc = "select"
    /\ \/ /\ fpc' = "rank"
          /\ UNCHANGED io_error
       \/ /\ fpc' = "failed"
          /\ io_error' = "select"
    /\ UNCHANGED <<mailbox, n, recent_ord_nums, fetched, mails>>
    /\ UNCHANGED <<filterVars, storeVars, readVars>>

\* let recent_ord_nums = get_mails_sorted_by_date(session)?
GetMailsSortedByDate ==
    /\ fpc = "rank"
    /\ \/ \* session.search("ALL")? fails
          /\ fpc' = "failed"
          /\ io_error' = "search"
          /\ UNCHANGED recent_ord_nums
       \/ \* session.fetch(..)? of the Date headers fails
          /\ SearchAll(mailbox) # {}
          /\ fpc' = "failed"
          /\ io_error' = "fetch_dates"
          /\ UNCHANGED recent_ord_nums
       \/ \E order \in ProviderFetch(FetchStr(SearchAll(mailbox))) :
            IF \E i \in DOMAIN order : DateUnparsable(mailbox, order[i])
            THEN /\ fpc' = "panicked"
                 /\ UNCHANGED <<io_error, recent_ord_nums>>
            ELSE /\ recent_ord_nums' = Rank(mailbox, order)
                 /\ fpc' = "fetch"
                 /\ UNCHANGED io_error
    /\ UNCHANGED <<mailbox, n, fetched, mails>>
    /\ UNCHANGED <<filterVars, storeVars, readVars>>

\* the final fetch of the first n ordering numbers, and the parse of each
FetchBodies ==
    /\ fpc = "fetch"
    /\ LET fetch_str == Take(recent_ord_nums, n)
       IN  \/ \* session.fetch(&fetch_str, "BODY.PEEK[]")? fails
              /\ fetch_str # <<>>
              /\ fpc' = "failed"
              /\ io_error' = "fetch_bodies"
              /\ UNCHANGED <<fetched, mails>>
           \/ \E order \in ProviderFetch(fetch_str) :
                /\ fetched' = order
                /\ mails' = CollectMails(mailbox, order)
                /\ fpc' = "done"
                /\ UNCHANGED io_error
    /\ UNCHANGED <<mailbox, n, recent_ord_nums>>
    /\ UNCHANGED <<filterVars, storeVars, readVars>>

FetchNext == SelectMailbox \/ GetMailsSortedByDate \/ FetchBodies

FetchSpecInit == FetchInit /\ FilterIdle /\ StoreIdle /\ ReadIdle

SpecFetch == FetchSpecInit /\ [][FetchNext]_vars

(***************************************************************************)
(* The header filters built from one set of selectors (SpecFilter).        *)
(***************************************************************************)
FilterInit ==
    /\ fields \in {f \in SUBSET HeaderFields : Cardinality(f) <= MaxFields}
    /\ negated \in BOOLEAN
    /\ built = <<>>

\* HeaderFilter::new(fields, negated).filter_str(): each filter holds its
\* own HashSet, which iterates in an order of its own
BuildFilter ==
    /\ Len(built) < MaxBuilds
    /\ \E order \in Perms(fields) :
         built' = Append(built, HeaderFilterStr(order, negated))
    /\ UNCHANGED <<fields, negated>>
    /\ UNCHANGED <<fetchVars, storeVars, readVars>>

FilterNext == BuildFilter

FilterSpecInit == FilterInit /\ FetchIdle /\ StoreIdle /\ ReadIdle

SpecFilter == FilterSpecInit /\ [][FilterNext]_vars

(***************************************************************************)
(* main.rs: the read command (Spec).                                       *)
(***************************************************************************)
\* every map of accounts a file can hold
AccountMaps == UNION {[ids -> StoredAccountData] : ids \in SUBSET AccountIds}

\* the keys of a map in ascending order
KeysInOrder(ids) == CHOOSE o \in Perms(ids) : \A i, j \in DOMAIN o : i < j => o[i] < o[j]

\* the files a run can find: none, an unreadable one, or one written by an
\* earlier login or read (its tables in the order of their keys)
AccountFiles ==
    {[kind |-> k, text |-> <<>>] : k \in {"nohome", "absent", "denied"}}
    \cup {[kind |-> "file", text |-> TomlToString(m, KeysInOrder(DOMAIN m))] :
            m \in AccountMaps}

\* store_account_data that reports success without writing the file
StoreAccountDataNoWrite(f, map) == {[ok |-> TRUE, fs |-> f]}

\* store_account_data(&accounts, &path, "accounts.toml"): the outcomes of
\* writing the whole map
StoreAccountData(f, map) ==
    UNION {FsWrite(f, TomlToString(map, order)) : order \in Perms(DOMAIN map)}

\* a call added to the calls made
Called(name, ok) == calls' = Append(calls, [call |-> name, ok |-> ok])

ReadInit ==
    /\ fs \in AccountFiles
    /\ fs0 = fs
    /\ accounts = <<>>
    /\ pc = "load"
    /\ err = "none"
    /\ email = 0
    /\ access_token = 0
    /\ refresh_token = 0
    /\ session = "none"
    /\ calls = <<>>
    /\ last_op = "idle"
    /\ upserts = 0
    /\ all_ok = TRUE
    /\ expected = <<>>

\* get_data_dir_path()?, fs::read_to_string with NotFound read as the empty
\* text, toml::from_str(&data_str)?
ReadAccountsFile ==
    /\ pc = "load"
    /\ LET r == LoadData(fs) IN
         IF r.ok
         THEN /\ accounts' = r.map
              /\ pc' = "select"
              /\ UNCHANGED err
         ELSE /\ pc' = "failed"
              /\ err' = "load_failed"
              /\ UNCHANGED accounts
    /\ UNCHANGED <<fs, fs0, email, access_token, refresh_token, session, calls>>
    /\ UNCHANGED <<last_op, upserts, all_ok, expected>>
    /\ UNCHANGED <<fetchVars, filterVars>>

\* match select_account(&accounts): the only account, the account the user
\* picks among several, or None, which ends in todo!()
SelectAccount ==
    /\ pc = "select"
    /\ \/ /\ \/ accounts = <<>>
             \/ Cardinality(DOMAIN accounts) > 1
          /\ pc' = "panicked"
          /\ UNCHANGED <<email, access_token, refresh_token>>
       \/ \E k \in DOMAIN accounts :
            /\ email' = k
            /\ access_token' = accounts[k].access_token
            /\ refresh_token' = accounts[k].refresh_token
            /\ pc' = "open1"
    /\ UNCHANGED <<fs, fs0, accounts, err, session, calls>>
    /\ UNCHANGED <<last_op, upserts, all_ok, expected>>
    /\ UNCHANGED <<fetchVars, filterVars>>

\* the first create_imap_session: Ok(session), or Err(_) which leads to
\* the refresh
CreateSessionFirst ==
    /\ pc = "open1"
    /\ \/ /\ Called("open", TRUE)
          /\ session' = "open"
          /\ pc' = "fetch"
       \/ /\ Called("open", FALSE)
          /\ pc' = "refresh"
          /\ UNCHANGED session
    /\ UNCHANGED <<fs, fs0, accounts, err, email, access_token, refresh_token>>
    /\ UNCHANGED <<last_op, upserts, all_ok, expected>>
    /\ UNCHANGED <<fetchVars, filterVars>>

\* the refresh with its error dropped: the retry follows with the old token
RefreshTokenIgnoringFailure ==
    /\ pc = "refresh"
    /\ \/ \E t \in Tokens :
            /\ Called("refresh", TRUE)
            /\ access_token' = t
       \/ /\ Called("refresh", FALSE)
          /\ UNCHANGED access_token
    /\ pc' = "store"
    /\ UNCHANGED <<fs, fs0, accounts, err, email, refresh_token, session>>
    /\ UNCHANGED <<last_op, upserts, all_ok, expected>>
    /\ UNCHANGED <<fetchVars, filterVars>>

\* refresh_google_oauth_token(..).await?: a new access token, or the error
\* "an error occurred while trying to retrieve access token, status code .."
RefreshToken ==
    /\ pc = "refresh"
    /\ \/ \E t \in Tokens :
            /\ Called("refresh", TRUE)
            /\ access_token' = t
            /\ pc' = "store"
            /\ UNCHANGED err
       \/ /\ Called("refresh", FALSE)
          /\ pc' = "failed"
          /\ err' = "refresh_failed"
          /\ UNCHANGED access_token
    /\ UNCHANGED <<fs, fs0, accounts, email, refresh_token, session>>
    /\ UNCHANGED <<last_op, upserts, all_ok, expected>>
    /\ UNCHANGED <<fetchVars, filterVars>>

\* accounts.insert(email.clone(), data); store_account_data(..)?
StoreRefreshed ==
    /\ pc = "store"
    /\ accounts' = HashMapInsert(accounts, email,
                     [access_token |-> access_token, refresh_token |-> refresh_token])
    /\ \E w \in StoreAccountData(fs, accounts') :
         /\ fs' = w.fs
         /\ Called("write", w.ok)
         /\ IF w.ok
            THEN pc' = "open2" /\ UNCHANGED err
            ELSE pc' = "failed" /\ err' = "store_failed"
    /\ UNCHANGED <<fs0, email, access_token, refresh_token, session>>
    /\ UNCHANGED <<last_op, upserts, all_ok, expected>>
    /\ UNCHANGED <<fetchVars, filterVars>>

\* the retried create_imap_session that tries again after a failure
CreateSessionRetryAgain ==
    /\ pc = "open2"
    /\ \/ /\ Called("open", TRUE)
          /\ session' = "open"
          /\ pc' = "fetch"
       \/ /\ Called("open", FALSE)
          /\ pc' = "open2"
          /\ UNCHANGED session
    /\ UNCHANGED <<fs, fs0, accounts, err, email, access_token, refresh_token>>
    /\ UNCHANGED <<last_op, upserts, all_ok, expected>>
    /\ UNCHANGED <<fetchVars, filterVars>>

\* the second create_imap_session(..)?: Ok(session), or the provider's
\* error returned from main
CreateSessionRetry ==
    /\ pc = "open2"
    /\ \/ /\ Called("open", TRUE)
          /\ session' = "open"
          /\ pc' = "fetch"
          /\ UNCHANGED err
       \/ /\ Called("open", FALSE)
          /\ pc' = "failed"
          /\ err' = "retry_failed"
          /\ UNCHANGED session
    /\ UNCHANGED <<fs, fs0, accounts, email, access_token, refresh_token>>
    /\ UNCHANGED <<last_op, upserts, all_ok, expected>>
    /\ UNCHANGED <<fetchVars, filterVars>>

\* fetch_top_n_msg_from_inbox(&mut session, n)?: on an error main returns
\* and the session is dropped, no LOGOUT sent
FetchTopN ==
    /\ pc = "fetch"
    /\ \/ \* session.select("INBOX")? fails
          /\ Called("select", FALSE)
          /\ pc' = "failed"
          /\ err' = "fetch_failed"
          /\ session' = "dropped"
       \/ \* session.fetch(format!("{n}"), "RFC822")? fails
          /\ calls' = calls \o <<[call |-> "select", ok |-> TRUE],
                                 [call |-> "fetch", ok |-> FALSE]>>
          /\ pc' = "failed"
          /\ err' = "fetch_failed"
          /\ session' = "dropped"
       \/ \* a message without a body, or with one that is not UTF-8
          /\ calls' = calls \o <<[call |-> "select", ok |-> TRUE],
                                 [call |-> "fetch", ok |-> TRUE]>>
          /\ pc' = "failed"
          /\ err' = "body_failed"
          /\ session' = "dropped"
       \/ /\ calls' = calls \o <<[call |-> "select", ok |-> TRUE],
                                 [call |-> "fetch", ok |-> TRUE]>>
          /\ pc' = "logout"
          /\ UNCHANGED <<err, session>>
    /\ UNCHANGED <<fs, fs0, accounts, email, access_token, refresh_token>>
    /\ UNCHANGED <<last_op, upserts, all_ok, expected>>
    /\ UNCHANGED <<fetchVars, filterVars>>

\* session.logout()?
Logout ==
    /\ pc = "logout"
    /\ \/ /\ Called("logout", TRUE)
          /\ session' = "logged_out"
          /\ pc' = "done"
          /\ UNCHANGED err
       \/ /\ Called("logout", FALSE)
          /\ session' = "logout_failed"
          /\ pc' = "failed"
          /\ err' = "logout_failed"
    /\ UNCHANGED <<fs, fs0, accounts, email, access_token, refresh_token>>
    /\ UNCHANGED <<last_op, upserts, all_ok, expected>>
    /\ UNCHANGED <<fetchVars, filterVars>>

Next ==
    \/ ReadAccountsFile
    \/ SelectAccount
    \/ CreateSessionFirst
    \/ RefreshToken
    \/ StoreRefreshed
    \/ CreateSessionRetry
    \/ FetchTopN
    \/ Logout

Init == ReadInit /\ FetchIdle /\ FilterIdle

Spec == Init /\ [][Next]_vars

(***************************************************************************)
(* The credential store from an empty store on (SpecStore).                *)
(***************************************************************************)
StoreInit ==
    /\ fs \in {[kind |-> "nohome", text |-> <<>>], [kind |-> "absent", text |-> <<>>],
               [kind |-> "denied", text |-> <<>>], [kind |-> "file", text |-> <<>>]}
    /\ accounts = <<>>
    /\ last_op = "none"
    /\ upserts = 0
    /\ all_ok = TRUE
    /\ expected = <<>>

\* StoredAccounts::load_data() at the start of a run: the store in memory
\* is what the file holds
LoadAccounts ==
    /\ LET r == LoadData(fs) IN
         /\ accounts' = r.map
         /\ expected' = r.map
         /\ last_op' = IF r.ok THEN "load_ok" ELSE "load_err"
    /\ all_ok' = TRUE
    /\ UNCHANGED <<fs, upserts>>
    /\ UNCHANGED <<fetchVars, filterVars, readVars>>

\* StoredAccounts::insert(k, v) on the loaded accounts: the insert into the
\* map, then store_data.  The caller returns the error of a failed insert
\* from main, so the next call on the store is the load_data of another run.
InsertAccount ==
    /\ last_op \in {"load_ok", "insert_ok"}
    /\ upserts < MaxUpserts
    /\ \E k \in AccountIds, v \in StoredAccountData :
         /\ accounts' = HashMapInsert(accounts, k, v)
         /\ expected' = [x \in DOMAIN expected \cup {k} |->
                            IF x = k THEN v ELSE expected[x]]
         /\ \E w \in StoreData(fs, accounts') :
              /\ fs' = w.fs
              /\ last_op' = IF w.ok THEN "insert_ok" ELSE "insert_err"
              /\ all_ok' = (all_ok /\ w.ok)
    /\ upserts' = upserts + 1
    /\ UNCHANGED <<fetchVars, filterVars, readVars>>

StoreNext == LoadAccounts \/ InsertAccount

StoreSpecInit == StoreInit /\ FetchIdle /\ FilterIdle /\ ReadIdle

SpecStore == StoreSpecInit /\ [][StoreNext]_vars

(***************************************************************************)
(* Claims about fetch_n_recent_mails (SpecFetch).                          *)
(***************************************************************************)
AllDatesParsable == \A i \in DOMAIN mailbox : mailbox[i].date # 0

C2_NewestFirst ==
    fpc = "done" =>
        \A i, j \in DOMAIN mails :
            (i < j /\ mails[i].ok /\ mails[j].ok) =>
                mailbox[mails[i].ord_num].date >= mailbox[mails[j].ord_num].date

C13_DateFailureIsAnError ==
    (/\ \E i \in DOMAIN mailbox : mailbox[i].date = 0
     /\ fpc \notin {"select", "rank"}
     /\ io_error = "none")
        => (fpc = "failed" /\ mails = <<>>)

\* C9: two filters built from the same selectors (of distinct header fields)
\* and the same negated flag render the identical text.
C9_BuildDeterministic ==
    (\A f, g \in fields : f.tag = g.tag => f = g) =>
        \A i, j \in DOMAIN built : built[i] = built[j]

\* the name of each header field in the protocol
HeaderName(tag) ==
    CASE tag = "Subject" -> "SUBJECT"
      [] tag = "To"      -> "TO"
      [] tag = "From"    -> "FROM"
      [] tag = "Date"    -> "DATE"

HeaderNames == {"SUBJECT", "TO", "FROM", "DATE"}

PredTexts == {PredStr(v) : v \in 1..MaxPred} \cup {ToRfc2822(v) : v \in 1..MaxPred}

\* C10: for a non-empty selector set the rendered text is one expression
\* that names exactly the header fields of the selectors, each by its own
\* name, holds no predicate value, and carries the negation marker exactly
\* when negated is set.
C10_NamesExactlyTheFields ==
    \A i \in DOMAIN built :
        fields # {} =>
            /\ built[i].some
            /\ Cardinality({k \in DOMAIN built[i].str :
                               built[i].str[k] = "HEADER.FIELDS"}) = 1
            /\ Range(built[i].str) \cap HeaderNames
                   = {HeaderName(f.tag) : f \in fields}
            /\ Range(built[i].str) \cap PredTexts = {}
            /\ (".NOT" \in Range(built[i].str)) <=> negated

\* C11: filter_str returns None for the empty selector set, whatever the
\* negated flag, and Some text for every non-empty selector set.
C11_NoneIffEmpty ==
    \A i \in DOMAIN built : built[i].some <=> fields # {}

\* a negated filter over the empty set has been built and is None
C11_Witness ==
    /\ fields = {}
    /\ negated
    /\ Len(built) >= 1
    /\ ~built[1].some

(***************************************************************************)
(* Claims about the read command (Spec).                                   *)
(***************************************************************************)
\* the number of calls of one kind made so far
Count(name) == Cardinality({i \in DOMAIN calls : calls[i].call = name})

\* the call was made and ended as given
Made(name, ok) == \E i \in DOMAIN calls : calls[i] = [call |-> name, ok |-> ok]

\* the entry accounts.toml holds for the selected account
Stored == TomlFromStr(fs.text).map[email]

\* C3: when the second session-open is attempted (and from then on) the
\* file holds the refreshed access token for the selected account; when
\* writing the file failed no second attempt is made.
C3_PersistedBeforeRetry ==
    /\ (pc = "open2" \/ Count("open") = 2) =>
          /\ fs.kind = "file"
          /\ TomlFromStr(fs.text).ok
          /\ email \in DOMAIN TomlFromStr(fs.text).map
          /\ Stored.access_token = access_token
    /\ Made("write", FALSE) => (Count("open") = 1 /\ pc = "failed")

\* the second attempt has been made with a token the file did not hold before
C3_Witness ==
    /\ Count("open") = 2
    /\ Made("refresh", TRUE)
    /\ TomlFromStr(fs0.text).map[email].access_token # access_token
    /\ Stored.access_token = access_token

\* C14: compared with the file the run found, accounts.toml still parses
\* to the same accounts; every refresh_token is the one found; an
\* access_token differs only for the selected account, after a successful
\* refresh, and is then the refreshed one; and when the first session-open
\* succeeded the file is as found and no write was made.
C14_OnlyAccessTokenReplaced ==
    LET before == TomlFromStr(fs0.text)
        after == TomlFromStr(fs.text)
    IN  /\ fs.kind = fs0.kind
        /\ after.ok = before.ok
        /\ DOMAIN after.map = DOMAIN before.map
        /\ \A k \in DOMAIN before.map :
              /\ after.map[k].refresh_token = before.map[k].refresh_token
              /\ \/ after.map[k].access_token = before.map[k].access_token
                 \/ /\ k = email
                    /\ Made("refresh", TRUE)
                    /\ after.map[k].access_token = access_token
        /\ (calls # <<>> /\ calls[1].ok) => (fs = fs0 /\ Count("write") = 0)

\* C4: at most one token refresh and at most two session-open attempts are
\* made; a first attempt that succeeds is followed by no refresh; and after
\* a failed refresh or a failed second attempt nothing more is done.
C4_OneRefreshTwoOpens ==
    /\ Count("refresh") <= 1
    /\ Count("open") <= 2
    /\ (Count("open") >= 1 /\ calls[1].ok) => (Count("refresh") = 0 /\ Count("open") = 1)
    /\ (Made("refresh", FALSE) \/ (Count("open") = 2 /\ session = "none")) =>
          (pc = "failed" /\ ~ENABLED Next)

\* the second attempt failed after a refresh
C4_Witness ==
    /\ Count("open") = 2
    /\ Count("refresh") = 1
    /\ session = "none"
    /\ pc = "failed"

\* C5: after a refresh failure the command has ended with the refresh error,
\* which is not the error of a failed second attempt, nothing was called
\* after the refresh, and the file with the stored refresh token is as it was.
C5_RefreshFailureIsTerminal ==
    /\ Made("refresh", FALSE) =>
          /\ pc = "failed"
          /\ err = "refresh_failed"
          /\ calls[Len(calls)] = [call |-> "refresh", ok |-> FALSE]
          /\ fs = fs0
          /\ Stored.refresh_token = refresh_token
    /\ (Count("open") = 2 /\ calls[Len(calls)] = [call |-> "open", ok |-> FALSE])
          => err = "retry_failed"

\* the refresh has failed
C5_Witness ==
    /\ Made("refresh", FALSE)
    /\ err = "refresh_failed"
    /\ Stored.refresh_token = refresh_token

\* C6: when the command has ended and a session had been opened, the
\* session was closed with logout.
C6_LogoutOnEveryExit ==
    (pc \in {"done", "failed"} /\ Made("open", TRUE)) =>
        Count("logout") = 1


(***************************************************************************)
(* Claims about the credential store (SpecStore).                          *)
(***************************************************************************)
\* C7: after insert calls that all succeeded on a loaded store (the empty
\* store included), load_data succeeds and returns the map held in memory,
\* in which each inserted account has the credential of its last insert.
C7_StorageReflectsMemory ==
    (all_ok /\ upserts > 0 /\ last_op = "insert_ok") =>
        /\ LoadData(fs).ok
        /\ LoadData(fs).map = accounts
        /\ accounts = expected

\* two inserts for one account have succeeded and the file reads back as
\* the credential of the second
C7_Witness ==
    /\ all_ok
    /\ last_op = "insert_ok"
    /\ upserts = MaxUpserts
    /\ Cardinality(DOMAIN accounts) = 1
    /\ LoadData(fs).map = expected

\* C8: load_data returns an empty map, not an error, when accounts.toml is
\* absent or an empty file, and returns an error, never an empty map, when
\* the file cannot be read for another reason.
C8_LoadAbsentIsEmpty ==
    last_op \in {"load_ok", "load_err"} =>
        /\ (fs.kind = "absent" \/ (fs.kind = "file" /\ fs.text = <<>>))
              => (last_op = "load_ok" /\ accounts = <<>>)
        /\ fs.kind = "denied" => last_op = "load_err"

\* an absent file has been loaded as the empty map
C8_Witness ==
    /\ last_op = "load_ok"
    /\ fs.kind = "absent"
    /\ accounts = <<>>

=============================================================================
